---- MODULE Spec2Model ----
(***************************************************************************)
(* Request-dispatch pipeline of the AI gateway: the per-caller token       *)
(* bucket rate limiter (pkg/ratelimit/token_bucket.go), the Redis cache    *)
(* adapter (pkg/cache/redis.go) and Router.HandleChatCompletion with its   *)
(* model-to-provider routing (pkg/router, second half of redis.go).        *)
(*                                                                         *)
(* Time is counted in whole seconds.  int64 token arithmetic is modelled   *)
(* by unbounded integers: every value stays far below 2^63 here.           *)
(***************************************************************************)
EXTENDS Integers, Sequences, FiniteSets, TLC

\* ---------------------------------------------------------------- bounds
MaxRequests == 2       \* requests started over a whole behaviour
MaxCalls == 2          \* direct limiter calls started over a whole behaviour
MaxRestarts == 1       \* process restarts (Redis outlives the process)
ScenarioRequests == 3  \* requests one caller issues one after another in a scenario
MaxCapacity == 2       \* largest capacity a limiter under test is built with
BucketCalls == 3       \* Allow calls made one after another on such a limiter
AdapterCalls == 3      \* cache adapter calls and requests of one cache run
GatewayFirst == 1      \* calls of a cache run before which the gateway's request arrives
MetricCalls == 2       \* direct calls of the recording functions in a run
LiveRequests == 2      \* requests of a run whose goroutines are scheduled fairly
RetryHorizon == 12     \* seconds the clock runs past the last refill of a retried bucket
TwinCalls == 5         \* calls of a run that compares two callers

\* ------------------------------------------------------ program constants
CacheTTL == 300        \* seconds, 5*time.Minute
AdmissionCost == 1     \* r.rateLimiter.Allow(userID, 1)

Procs == {1, 2}                    \* the handler goroutines in flight together
RespIds == {1, 2}                  \* the ids a provider gives its responses
Users == {"u1", "u2"}
NoUser == ""
UserIDs == Users \cup {NoUser}   \* every value the X-User-ID header can take

\* Model names as character sequences, so that prefixes are computed.
GPT4 == <<"g", "p", "t", "-", "4">>
CLAUDE3 == <<"c", "l", "a", "u", "d", "e", "-", "3">>
LLAMA == <<"l", "l", "a", "m", "a", "-", "7", "0", "b">>
NoModel == <<>>
Models == {GPT4, CLAUDE3, LLAMA}
\* The model of the tests' requests.
MOCKMODEL == <<"m", "o", "c", "k", "-", "m", "o", "d", "e", "l">>
Msgs == {"Hello"}

\* NewRateLimiter(capacity, refillRate): refillRate = num/den tokens per second.
SlowLimiter == [capacity |-> 2, num |-> 1, den |-> 10]     \* NewRateLimiter(2, 0.1)
TightLimiter == [capacity |-> 1, num |-> 1, den |-> 10]
\* NewRouter(cache, rateLimiter) and the RegisterProvider calls made before
\* serving: main registers "openai" and "anthropic" by the API keys present, the
\* tests register "mock"; the cache is nil when Redis did not answer at startup.
RouterConfigs ==
    { [providers |-> {"openai"}, cacheNil |-> FALSE],
      [providers |-> {"anthropic"}, cacheNil |-> FALSE],
      [providers |-> {"openai"}, cacheNil |-> TRUE] }

VARIABLES
    defaultCapacity,   \* RateLimiter.defaultCapacity
    defaultRefillRate, \* RateLimiter.defaultRefillRate, as <<num, den>>
    buckets,           \* RateLimiter.buckets: user -> index into heap, 0 = absent
    heap,              \* every TokenBucket ever allocated, in allocation order
    providers,         \* Router.providers: the registered provider names
    cacheNil,          \* Router.cache == nil
    store,             \* the Redis keyspace: key -> entry
    now,               \* time.Now(), seconds
    pc,                \* position of each handler goroutine
    req,               \* the operation each goroutine is executing
    loc,               \* its local variables
    last,              \* the operation that returned most recently, with its result
    log,               \* the results the caller of a run records, in order
    metrics,           \* the Prometheus counters of pkg/middleware
    mainpc,            \* position of main
    admitted,          \* user -> total cost admitted since the process started
    nreq,              \* requests started so far
    nrestarts          \* restarts so far

vars == <<defaultCapacity, defaultRefillRate, buckets, heap, providers, cacheNil,
          store, now, pc, req, loc, last, log, metrics, mainpc, admitted,
          nreq, nrestarts>>
limiterVars == <<defaultCapacity, defaultRefillRate, buckets, heap>>
configVars == <<defaultCapacity, defaultRefillRate, providers, cacheNil>>
boundVars == <<nreq, nrestarts>>

\* Authorization headers, as the characters strings.Split sees.
BEARER == <<"B", "e", "a", "r", "e", "r">>
SP == <<" ">>
K1 == <<"k", "1">>
K2 == <<"k", "2">>
KSpaced == <<"k", " ", "3">>
KUnknown == <<"k", "9">>
\* The validKeys map given to AuthMiddleware: API key to user id.
ValidKeys == [k \in {K1, K2, KSpaced} |-> IF k = K1 THEN "u1" ELSE "u2"]
AuthHeaders ==
    { <<>>, BEARER, BEARER \o SP, K1,
      BEARER \o SP \o K1, BEARER \o SP \o K2, BEARER \o SP \o KSpaced,
      BEARER \o SP \o KUnknown, BEARER \o SP \o SP \o K1, BEARER \o SP \o K1 \o SP,
      <<"B", "a", "s", "i", "c">> \o SP \o K1,
      <<"b", "e", "a", "r", "e", "r">> \o SP \o K1 }

\* strings.Split(s, " "): the pieces between the spaces, empty ones included.
RECURSIVE Split(_)
Split(s) ==
    IF s = <<>> THEN << <<>> >>
    ELSE LET rest == Split(Tail(s))
         IN  IF Head(s) = " " THEN << <<>> >> \o rest
             ELSE << <<Head(s)>> \o Head(rest) >> \o Tail(rest)

\* What the middleware does with a request: abort with 401, or c.Set("user_id")
\* and c.Next().
Abort(kind) == [abort |-> TRUE, kind |-> kind, user_id |-> ""]
PassOn(userID) == [abort |-> FALSE, kind |-> "", user_id |-> userID]

\* The scheme word not compared.
AuthMiddleware_anyscheme(validKeys, authHeader) ==
    IF authHeader = <<>> THEN Abort("missing authorization header")
    ELSE LET parts == Split(authHeader)
         IN  IF Len(parts) # 2 THEN Abort("invalid authorization format")
             ELSE IF parts[2] \notin DOMAIN validKeys THEN Abort("invalid API key")
             ELSE PassOn(validKeys[parts[2]])

\* AuthMiddleware(validKeys), the handler function it returns.
AuthMiddleware(validKeys, authHeader) ==
    IF authHeader = <<>> THEN Abort("missing authorization header")
    ELSE LET parts == Split(authHeader)
         IN  IF Len(parts) # 2 \/ parts[1] # BEARER THEN Abort("invalid authorization format")
             ELSE IF parts[2] \notin DOMAIN validKeys THEN Abort("invalid API key")
             ELSE PassOn(validKeys[parts[2]])

Min(a, b) == IF a < b THEN a ELSE b

\* ------------------------------------------------------------- TokenBucket
\* A bucket that starts empty.
NewTokenBucket_empty(capacity, refillRate, t, owner) ==
    [capacity |-> capacity, tokens |-> 0, refillRate |-> refillRate,
     lastRefill |-> t, owner |-> owner, created |-> t]

NewTokenBucket(capacity, refillRate, t, owner) ==
    [capacity |-> capacity, tokens |-> capacity, refillRate |-> refillRate,
     lastRefill |-> t, owner |-> owner, created |-> t]

\* lastRefill moved to the time of every call, tokens added or not.
refill_alwaysadvance(tb, t) ==
    LET elapsed == t - tb.lastRefill
        tokensToAdd == (elapsed * tb.refillRate[1]) \div tb.refillRate[2]
    IN  IF tokensToAdd > 0
        THEN [tb EXCEPT !.tokens = IF tb.tokens + tokensToAdd < tb.capacity
                                   THEN tb.tokens + tokensToAdd ELSE tb.capacity,
                        !.lastRefill = t]
        ELSE [tb EXCEPT !.lastRefill = t]

\* The elapsed time rounded up to a whole token.
refill_roundup(tb, t) ==
    LET elapsed == t - tb.lastRefill
        tokensToAdd == (elapsed * tb.refillRate[1] + tb.refillRate[2] - 1) \div tb.refillRate[2]
    IN  IF tokensToAdd > 0
        THEN [tb EXCEPT !.tokens = IF tb.tokens + tokensToAdd < tb.capacity
                                   THEN tb.tokens + tokensToAdd ELSE tb.capacity,
                        !.lastRefill = t]
        ELSE tb

\* refill without the clamp to capacity.
refill_nocap(tb, t) ==
    LET elapsed == t - tb.lastRefill
        tokensToAdd == (elapsed * tb.refillRate[1]) \div tb.refillRate[2]
    IN  IF tokensToAdd > 0
        THEN [tb EXCEPT !.tokens = tb.tokens + tokensToAdd, !.lastRefill = t]
        ELSE tb

\* TokenBucket.refill at time t.
refill(tb, t) ==
    LET elapsed == t - tb.lastRefill
        tokensToAdd == (elapsed * tb.refillRate[1]) \div tb.refillRate[2]
    IN  IF tokensToAdd > 0
        THEN [tb EXCEPT !.tokens = Min(tb.tokens + tokensToAdd, tb.capacity),
                        !.lastRefill = t]
        ELSE tb

\* Admission only with more tokens than the cost.
Allow_strict(tb, tokens, t) ==
    LET r == refill(tb, t)
    IN  IF r.tokens > tokens
        THEN [tb |-> [r EXCEPT !.tokens = r.tokens - tokens], ok |-> TRUE]
        ELSE [tb |-> r, ok |-> FALSE]

\* The comparison made on the tokens read before any other call wrote them (the
\* bucket as it was created); the subtraction on the current ones.
Allow_stale(tb, tokens, t) ==
    LET r == refill(tb, t)
    IN  IF r.capacity >= tokens
        THEN [tb |-> [r EXCEPT !.tokens = r.tokens - tokens], ok |-> TRUE]
        ELSE [tb |-> r, ok |-> FALSE]

\* Allow without the decrement.
Allow_noconsume(tb, tokens, t) ==
    LET r == refill(tb, t)
    IN  IF r.tokens >= tokens THEN [tb |-> r, ok |-> TRUE] ELSE [tb |-> r, ok |-> FALSE]

\* The cost taken before the comparison.
Allow_payfirst(tb, tokens, t) ==
    LET r == refill(tb, t)
    IN  [tb |-> [r EXCEPT !.tokens = r.tokens - tokens], ok |-> r.tokens >= tokens]

\* A rejected call that restarts the refill interval.
Allow_restartonreject(tb, tokens, t) ==
    LET r == refill(tb, t)
    IN  IF r.tokens >= tokens
        THEN [tb |-> [r EXCEPT !.tokens = r.tokens - tokens], ok |-> TRUE]
        ELSE [tb |-> [r EXCEPT !.lastRefill = t], ok |-> FALSE]

\* TokenBucket.Allow: the bucket after the call and the result.
Allow(tb, tokens, t) ==
    LET r == refill(tb, t)
    IN  IF r.tokens >= tokens
        THEN [tb |-> [r EXCEPT !.tokens = r.tokens - tokens], ok |-> TRUE]
        ELSE [tb |-> r, ok |-> FALSE]

\* The tokens reported as they are, with no refill first.
Available_norefill(tb, t) == [tb |-> tb, available |-> tb.tokens]

\* TokenBucket.Available: the bucket after the call and the value returned.
Available(tb, t) ==
    LET r == refill(tb, t) IN [tb |-> r, available |-> r.tokens]

\* ------------------------------------------------- requests and responses
NoReq ==
    [op |-> "none", user |-> NoUser, cost |-> 0, model |-> NoModel, msg |-> "",
     stream |-> FALSE, wellFormed |-> FALSE]
\* POST /v1/chat/completions: the X-User-ID header and the JSON body.  A body
\* ShouldBindJSON rejects carries no usable field.
ChatRequestsOf(users) ==
    { [op |-> "chat", user |-> u, cost |-> AdmissionCost, model |-> m, msg |-> t,
       stream |-> s, wellFormed |-> TRUE] :
          u \in users, m \in Models, t \in Msgs, s \in BOOLEAN }
    \cup
    { [op |-> "chat", user |-> u, cost |-> AdmissionCost, model |-> NoModel, msg |-> "",
       stream |-> FALSE, wellFormed |-> FALSE] : u \in users }
ChatRequests == ChatRequestsOf(UserIDs)
\* The requests of the gateway's runs: one identified caller with a body for
\* every model, a streaming one, a malformed one, and one request without
\* identity.
Workload ==
    { r \in ChatRequestsOf({"u1"}) : r.stream => r.model = GPT4 }
    \cup { r \in ChatRequestsOf({NoUser}) : r.model = GPT4 /\ ~r.stream }
\* The request of the tests: model "mock-model", one user message "Hello", no
\* stream field.
TestRequest ==
    [op |-> "chat", user |-> "u1", cost |-> AdmissionCost, model |-> MOCKMODEL,
     msg |-> "Hello", stream |-> FALSE, wellFormed |-> TRUE]
\* Direct calls of the limiter's API.
Costs == 0..2
AllowCalls ==
    { [op |-> "allow", user |-> u, cost |-> c, model |-> NoModel, msg |-> "",
       stream |-> FALSE, wellFormed |-> FALSE] : u \in Users, c \in Costs }
StatsCalls ==
    { [op |-> "stats", user |-> u, cost |-> 0, model |-> NoModel, msg |-> "",
       stream |-> FALSE, wellFormed |-> FALSE] : u \in Users }

NoResp == [id |-> 0, model |-> NoModel]
\* What a provider can answer to a request: its id is the provider's choice.
Responses(r) == { [id |-> i, model |-> r.model] : i \in RespIds }

NoOutcome == [status |-> 0, kind |-> "none", resp |-> NoResp]
Failure(status, kind) == [status |-> status, kind |-> kind, resp |-> NoResp]
Success(resp) == [status |-> 200, kind |-> "ok", resp |-> resp]
NoRet == [ok |-> FALSE, available |-> 0, capacity |-> 0]

\* A handler's locals; trail lists the stages it has been through.
NoLoc == [bucket |-> 0, exists |-> TRUE, providerName |-> "", cacheKey |-> <<>>,
          resp |-> NoResp, trail |-> <<>>, user_id |-> NoUser]
NoLast == [req |-> NoReq, loc |-> NoLoc, outcome |-> NoOutcome, ret |-> NoRet]
\* The recorder a run's caller keeps (the tests' httptest recorders): off in the
\* runs that look at one request at a time.
NoLog == [on |-> FALSE, entries |-> <<>>]
EmptyLog == [on |-> TRUE, entries |-> <<>>]

\* ------------------------------------------------------------------ Router
HasPrefix(s, prefix) ==
    Len(s) >= Len(prefix) /\ SubSeq(s, 1, Len(prefix)) = prefix

\* The rule for "claude-" left out: everything else goes to the default.
getProviderFromModel_gptonly(model) == "openai"

getProviderFromModel(model) ==
    IF HasPrefix(model, <<"g", "p", "t", "-">>) THEN "openai"
    ELSE IF HasPrefix(model, <<"c", "l", "a", "u", "d", "e", "-">>) THEN "anthropic"
    ELSE "openai"

\* sha256 over json.Marshal(req), taken as collision-free: the key is the
\* serialized request itself.
BodyFields == {"model", "msg", "temperature", "maxTokens", "stream"}
Marshal(r) == [f \in BodyFields \cap DOMAIN r |-> r[f]]
generateCacheKey(r) == <<"chat", Marshal(r)>>

Keys ==
    { generateCacheKey(r) : r \in { q \in ChatRequests \cup {TestRequest} : q.wellFormed } }
\* json.Marshal of a response in Set and json.Unmarshal of the stored bytes in Get.
MarshalResponse(v) == <<"json", v.id, v.model>>
UnmarshalResponse(data) == [id |-> data[2], model |-> data[3]]
NoEntry == [present |-> FALSE, val |-> <<>>, exp |-> 0]

\* Redis drops a key once its time-to-live has passed.
Expire(s, t) == [k \in Keys |-> IF s[k].present /\ s[k].exp <= t THEN NoEntry ELSE s[k]]

\* The trail holds the event.
Has(tr, ev) == \E i \in 1..Len(tr) : tr[i] = ev
Touched(l, ev) == [l EXCEPT !.trail = Append(@, ev)]

\* The identity check left out.
MissingIdentity_never(r) == FALSE

\* userID == "" at the head of HandleChatCompletion.
MissingIdentity(r) == r.user = NoUser

\* RedisCache.Get: the results the call can have on keyspace s.
CacheGet(s, key) ==
    (IF s[key].present THEN {[err |-> "nil", val |-> UnmarshalResponse(s[key].val)]}
                       ELSE {[err |-> "miss", val |-> NoResp]})
    \cup {[err |-> "error", val |-> NoResp]}

\* A Set that reports success and stores nothing.
CacheSet_dropped(s, key, value, t) ==
    { [err |-> "nil", store |-> s], [err |-> "error", store |-> s] }

\* RedisCache.Set: the keyspaces the call can leave, with its error.
CacheSet(s, key, value, t) ==
    { [err |-> "nil",
       store |-> [s EXCEPT ![key] = [present |-> TRUE, val |-> MarshalResponse(value),
                                        exp |-> t + CacheTTL]]],
      [err |-> "error", store |-> s] }

\* A Del that reports success and removes nothing.
CacheDelete_noop(s, key) ==
    { [err |-> "nil", store |-> s], [err |-> "error", store |-> s] }

\* RedisCache.Delete: the keyspaces the call can leave, with its error.
CacheDelete(s, key) ==
    { [err |-> "nil", store |-> [s EXCEPT ![key] = NoEntry]],
      [err |-> "error", store |-> s] }

\* Provider.ChatCompletion: a response, or an error; the error of p.client.Do is
\* that of the API or the expiry of the http.Client's Timeout.
ChatCompletion(r) ==
    { [err |-> FALSE, resp |-> x, timeout |-> FALSE] : x \in Responses(r) }
    \cup { [err |-> TRUE, resp |-> NoResp, timeout |-> t] : t \in BOOLEAN }

\* The counters of pkg/middleware the dispatcher's decisions are recorded in.
NoMetrics ==
    [cache_hits_total |-> 0, cache_misses_total |-> 0,
     rate_limit_exceeded_total |-> [u \in UserIDs |-> 0]]
RecordCacheHit(m) == [m EXCEPT !.cache_hits_total = @ + 1]
RecordCacheMiss(m) == [m EXCEPT !.cache_misses_total = @ + 1]
RecordRateLimitExceeded(m, userID) == [m EXCEPT !.rate_limit_exceeded_total[userID] = @ + 1]

\* ----------------------------------------------------------------- actions
\* The caller records a result, with the time it got it.
Record(e) ==
    log' = IF log.on THEN [log EXCEPT !.entries = Append(@, e)] ELSE log

\* The handler of p goes on at label with locals l.
Goto(p, label, l) ==
    /\ pc' = [pc EXCEPT ![p] = label]
    /\ loc' = [loc EXCEPT ![p] = l]
    /\ UNCHANGED <<req, last, log, metrics, mainpc>>

\* The handler of p returns o for request r; its goroutine ends.
Return(p, r, l, o) ==
    /\ pc' = [pc EXCEPT ![p] = "idle"]
    /\ req' = [req EXCEPT ![p] = NoReq]
    /\ loc' = [loc EXCEPT ![p] = NoLoc]
    /\ last' = [req |-> r, loc |-> l, outcome |-> o, ret |-> NoRet]
    /\ Record([req |-> r, trail |-> l.trail, outcome |-> o, ret |-> NoRet, at |-> now])
    /\ UNCHANGED <<metrics, mainpc>>

\* A direct call of the limiter by p returns v.
ReturnCall(p, v) ==
    /\ pc' = [pc EXCEPT ![p] = "idle"]
    /\ req' = [req EXCEPT ![p] = NoReq]
    /\ loc' = [loc EXCEPT ![p] = NoLoc]
    /\ last' = [req |-> req[p], loc |-> loc[p], outcome |-> NoOutcome, ret |-> v]
    /\ Record([req |-> req[p], trail |-> loc[p].trail, outcome |-> NoOutcome, ret |-> v,
               at |-> now])
    /\ UNCHANGED <<metrics, mainpc>>

\* A request arrives at HandleChatCompletion: the identity check.  At most max
\* requests arrive in a run.
Arrive(p, r, max) ==
    /\ mainpc = "serving"
    /\ pc[p] = "idle"
    /\ nreq < max
    /\ nreq' = nreq + 1
    /\ IF MissingIdentity(r)
       THEN Return(p, r, NoLoc, Failure(401, "MissingIdentity"))
       ELSE /\ pc' = [pc EXCEPT ![p] = "getBucket"]
            /\ req' = [req EXCEPT ![p] = r]
            /\ UNCHANGED <<loc, last, log, metrics, mainpc>>
    /\ UNCHANGED <<limiterVars, providers, cacheNil, store, now, admitted, nrestarts>>

BeginChat(p, r) == Arrive(p, r, MaxRequests)

\* RateLimiter.getBucket, the section under RLock.
getBucketRead(p) ==
    /\ pc[p] = "getBucket"
    /\ LET bucket == buckets[req[p].user]
       IN  IF bucket # 0
           THEN Goto(p, "bucketOp", [loc[p] EXCEPT !.bucket = bucket, !.exists = TRUE])
           ELSE Goto(p, "getBucketLock", [loc[p] EXCEPT !.exists = FALSE])
    /\ UNCHANGED <<limiterVars, providers, cacheNil, store, now, admitted, boundVars>>

\* One bucket for everybody: a new caller is given the first bucket made.
getBucketWrite_shared(p) ==
    /\ pc[p] = "getBucketLock"
    /\ IF buckets[req[p].user] # 0
       THEN /\ Goto(p, "bucketOp", [loc[p] EXCEPT !.bucket = buckets[req[p].user]])
            /\ UNCHANGED <<heap, buckets>>
       ELSE IF Len(heap) > 0
       THEN /\ buckets' = [buckets EXCEPT ![req[p].user] = 1]
            /\ Goto(p, "bucketOp", [loc[p] EXCEPT !.bucket = 1])
            /\ UNCHANGED heap
       ELSE /\ heap' = Append(heap, NewTokenBucket(defaultCapacity, defaultRefillRate,
                                                   now, req[p].user))
            /\ buckets' = [buckets EXCEPT ![req[p].user] = Len(heap) + 1]
            /\ Goto(p, "bucketOp", [loc[p] EXCEPT !.bucket = Len(heap) + 1])
    /\ UNCHANGED <<defaultCapacity, defaultRefillRate, providers, cacheNil, store, now,
                   admitted, boundVars>>

\* The section under Lock with the recheck left out.
getBucketWrite_norecheck(p) ==
    /\ pc[p] = "getBucketLock"
    /\ heap' = Append(heap, NewTokenBucket(defaultCapacity, defaultRefillRate, now,
                                           req[p].user))
    /\ buckets' = [buckets EXCEPT ![req[p].user] = Len(heap) + 1]
    /\ Goto(p, "bucketOp", [loc[p] EXCEPT !.bucket = Len(heap) + 1])
    /\ UNCHANGED <<defaultCapacity, defaultRefillRate, providers, cacheNil, store, now,
                   admitted, boundVars>>

\* RateLimiter.getBucket, the section under Lock: recheck, then allocate.
getBucketWrite(p) ==
    /\ pc[p] = "getBucketLock"
    /\ IF buckets[req[p].user] # 0
       THEN /\ Goto(p, "bucketOp", [loc[p] EXCEPT !.bucket = buckets[req[p].user]])
            /\ UNCHANGED <<heap, buckets>>
       ELSE /\ heap' = Append(heap, NewTokenBucket(defaultCapacity, defaultRefillRate,
                                                   now, req[p].user))
            /\ buckets' = [buckets EXCEPT ![req[p].user] = Len(heap) + 1]
            /\ Goto(p, "bucketOp", [loc[p] EXCEPT !.bucket = Len(heap) + 1])
    /\ UNCHANGED <<defaultCapacity, defaultRefillRate, providers, cacheNil, store, now,
                   admitted, boundVars>>

\* RateLimiter.Allow called directly: bucket.Allow(tokens) on the bucket found.
LimiterAllow(p) ==
    /\ pc[p] = "bucketOp"
    /\ req[p].op = "allow"
    /\ LET b == loc[p].bucket
           r == Allow(heap[b], req[p].cost, now)
       IN  /\ heap' = [heap EXCEPT ![b] = r.tb]
           /\ ReturnCall(p, [ok |-> r.ok, available |-> 0, capacity |-> 0])
           /\ admitted' = [admitted EXCEPT ![req[p].user] =
                               IF r.ok THEN @ + req[p].cost ELSE @]
    /\ UNCHANGED <<defaultCapacity, defaultRefillRate, buckets, providers, cacheNil,
                   store, now, boundVars>>

\* A Stats that drops the caller's entry once it has read the bucket.
Stats_evict(p) ==
    /\ pc[p] = "bucketOp"
    /\ req[p].op = "stats"
    /\ LET b == loc[p].bucket
           r == Available(heap[b], now)
       IN  /\ heap' = [heap EXCEPT ![b] = r.tb]
           /\ ReturnCall(p, [ok |-> TRUE, available |-> r.available,
                             capacity |-> heap[b].capacity])
    /\ buckets' = [buckets EXCEPT ![req[p].user] = 0]
    /\ UNCHANGED <<defaultCapacity, defaultRefillRate, providers, cacheNil,
                   store, now, admitted, boundVars>>

\* RateLimiter.Stats: bucket.Available() and bucket.capacity.
Stats(p) ==
    /\ pc[p] = "bucketOp"
    /\ req[p].op = "stats"
    /\ LET b == loc[p].bucket
           r == Available(heap[b], now)
       IN  /\ heap' = [heap EXCEPT ![b] = r.tb]
           /\ ReturnCall(p, [ok |-> TRUE, available |-> r.available,
                             capacity |-> heap[b].capacity])
    /\ UNCHANGED <<defaultCapacity, defaultRefillRate, buckets, providers, cacheNil,
                   store, now, admitted, boundVars>>

\* HandleChatCompletion: r.rateLimiter.Allow(userID, 1) on the bucket found.
RateLimit(p) ==
    /\ pc[p] = "bucketOp"
    /\ req[p].op = "chat"
    /\ LET b == loc[p].bucket
           r == Allow(heap[b], AdmissionCost, now)
       IN  /\ heap' = [heap EXCEPT ![b] = r.tb]
           /\ IF r.ok
              THEN /\ Goto(p, "parse", Touched(loc[p], "admit"))
                   /\ admitted' = [admitted EXCEPT ![req[p].user] = @ + AdmissionCost]
              ELSE /\ Return(p, req[p], Touched(loc[p], "reject"),
                             Failure(429, "RateLimitExceeded"))
                   /\ UNCHANGED admitted
    /\ UNCHANGED <<defaultCapacity, defaultRefillRate, buckets, providers, cacheNil,
                   store, now, boundVars>>

\* The lookup in r.providers left out: an unresolved request goes on all the same.
ParseAndRoute_noregistry(p) ==
    /\ pc[p] = "parse"
    /\ IF ~req[p].wellFormed
       THEN Return(p, req[p], Touched(loc[p], "badjson"), Failure(400, "MalformedRequest"))
       ELSE LET providerName == getProviderFromModel(req[p].model)
                l == [Touched(loc[p], "route") EXCEPT !.providerName = providerName]
            IN  Goto(p, IF ~req[p].stream THEN "cacheGet" ELSE "call", l)
    /\ UNCHANGED <<limiterVars, providers, cacheNil, store, now, admitted, boundVars>>

\* The stream flag ignored: every routed request goes through the cache.
ParseAndRoute_streamcached(p) ==
    /\ pc[p] = "parse"
    /\ IF ~req[p].wellFormed
       THEN Return(p, req[p], Touched(loc[p], "badjson"), Failure(400, "MalformedRequest"))
       ELSE LET providerName == getProviderFromModel(req[p].model)
                l == [Touched(loc[p], "route") EXCEPT !.providerName = providerName]
            IN  IF providerName \notin providers
                THEN Return(p, req[p], l, Failure(400, "UnsupportedModel"))
                ELSE Goto(p, "cacheGet", l)
    /\ UNCHANGED <<limiterVars, providers, cacheNil, store, now, admitted, boundVars>>

\* A provider registered on demand by the handler that finds it missing.
ParseAndRoute_lazyregister(p) ==
    /\ pc[p] = "parse"
    /\ IF ~req[p].wellFormed
       THEN /\ Return(p, req[p], Touched(loc[p], "badjson"), Failure(400, "MalformedRequest"))
            /\ UNCHANGED providers
       ELSE LET providerName == getProviderFromModel(req[p].model)
                l == [Touched(loc[p], "route") EXCEPT !.providerName = providerName]
            IN  /\ providers' = providers \cup {providerName}
                /\ Goto(p, IF ~req[p].stream THEN "cacheGet" ELSE "call", l)
    /\ UNCHANGED <<limiterVars, cacheNil, store, now, admitted, boundVars>>

\* HandleChatCompletion: ShouldBindJSON, then getProviderFromModel and the lookup
\* in r.providers; a streaming request goes straight to the provider.
ParseAndRoute(p) ==
    /\ pc[p] = "parse"
    /\ IF ~req[p].wellFormed
       THEN Return(p, req[p], Touched(loc[p], "badjson"), Failure(400, "MalformedRequest"))
       ELSE LET providerName == getProviderFromModel(req[p].model)
                l == [Touched(loc[p], "route") EXCEPT !.providerName = providerName]
            IN  IF providerName \notin providers
                THEN Return(p, req[p], l, Failure(400, "UnsupportedModel"))
                ELSE Goto(p, IF ~req[p].stream THEN "cacheGet" ELSE "call", l)
    /\ UNCHANGED <<limiterVars, providers, cacheNil, store, now, admitted, boundVars>>

\* The return after a hit left out: the handler goes on to the provider.
CacheLookup_noreturn(p) ==
    /\ pc[p] = "cacheGet"
    /\ LET l == [loc[p] EXCEPT !.cacheKey = generateCacheKey(req[p])]
       IN  IF cacheNil
           THEN Return(p, req[p], Touched(l, "panic"), Failure(500, "panic"))
           ELSE \E g \in CacheGet(store, l.cacheKey) :
                  Goto(p, "call", Touched(l, IF g.err = "nil" THEN "hit"
                                             ELSE IF g.err = "miss" THEN "miss" ELSE "geterr"))
    /\ UNCHANGED <<limiterVars, providers, cacheNil, store, now, admitted, boundVars>>

\* Only ErrCacheMiss taken as a miss: any other Get error fails the request.
CacheLookup_failonerror(p) ==
    /\ pc[p] = "cacheGet"
    /\ LET l == [loc[p] EXCEPT !.cacheKey = generateCacheKey(req[p])]
       IN  IF cacheNil
           THEN Return(p, req[p], Touched(l, "panic"), Failure(500, "panic"))
           ELSE \E g \in CacheGet(store, l.cacheKey) :
                  IF g.err = "nil"
                  THEN Return(p, req[p], Touched(l, "hit"), Success(g.val))
                  ELSE IF g.err = "miss"
                  THEN Goto(p, "call", Touched(l, "miss"))
                  ELSE Return(p, req[p], Touched(l, "geterr"), Failure(500, "CacheFailure"))
    /\ UNCHANGED <<limiterVars, providers, cacheNil, store, now, admitted, boundVars>>

\* The key kept in a place the handlers share: the lookup uses the key of the
\* request that returned last.
CacheLookup_lastkey(p) ==
    /\ pc[p] = "cacheGet"
    /\ LET l == [loc[p] EXCEPT !.cacheKey = IF last.loc.cacheKey \in Keys
                                            THEN last.loc.cacheKey
                                            ELSE generateCacheKey(req[p])]
       IN  IF cacheNil
           THEN Return(p, req[p], Touched(l, "panic"), Failure(500, "panic"))
           ELSE \E g \in CacheGet(store, l.cacheKey) :
                  IF g.err = "nil"
                  THEN Return(p, req[p], Touched(l, "hit"), Success(g.val))
                  ELSE Goto(p, "call", Touched(l, IF g.err = "miss" THEN "miss" ELSE "geterr"))
    /\ UNCHANGED <<limiterVars, providers, cacheNil, store, now, admitted, boundVars>>

\* HandleChatCompletion: r.cache.Get for a non-streaming request.  On a nil
\* *RedisCache the method reads c.client through the nil receiver and panics;
\* gin's Recovery middleware answers 500.
CacheLookup(p) ==
    /\ pc[p] = "cacheGet"
    /\ LET l == [loc[p] EXCEPT !.cacheKey = generateCacheKey(req[p])]
       IN  IF cacheNil
           THEN Return(p, req[p], Touched(l, "panic"), Failure(500, "panic"))
           ELSE \E g \in CacheGet(store, l.cacheKey) :
                  IF g.err = "nil"
                  THEN Return(p, req[p], Touched(l, "hit"), Success(g.val))
                  ELSE Goto(p, "call", Touched(l, IF g.err = "miss" THEN "miss" ELSE "geterr"))
    /\ UNCHANGED <<limiterVars, providers, cacheNil, store, now, admitted, boundVars>>

\* A failed call tried once more before the request is failed.
CallProvider_retry(p) ==
    /\ pc[p] = "call"
    /\ \E c \in ChatCompletion(req[p]) :
         IF c.err
         THEN IF ~Has(loc[p].trail, "callerr")
              THEN Goto(p, "call", Touched(loc[p], "callerr"))
              ELSE Return(p, req[p], Touched(loc[p], "callerr"),
                          Failure(500, "BackendFailure"))
         ELSE LET l == [Touched(loc[p], "call") EXCEPT !.resp = c.resp]
              IN  IF ~req[p].stream
                  THEN Goto(p, "cacheSet", l)
                  ELSE Return(p, req[p], l, Success(c.resp))
    /\ UNCHANGED <<limiterVars, providers, cacheNil, store, now, admitted, boundVars>>

\* A call whose client has no Timeout and waits for ever for its answer.
CallProvider_hang(p) ==
    /\ pc[p] = "call"
    /\ \E c \in ChatCompletion(req[p]) :
         IF c.err
         THEN IF c.timeout
              THEN Goto(p, "waiting", loc[p])
              ELSE Return(p, req[p], Touched(loc[p], "callerr"), Failure(500, "BackendFailure"))
         ELSE LET l == [Touched(loc[p], "call") EXCEPT !.resp = c.resp]
              IN  IF ~req[p].stream
                  THEN Goto(p, "cacheSet", l)
                  ELSE Return(p, req[p], l, Success(c.resp))
    /\ UNCHANGED <<limiterVars, providers, cacheNil, store, now, admitted, boundVars>>

\* HandleChatCompletion: provider.ChatCompletion(&req).
CallProvider(p) ==
    /\ pc[p] = "call"
    /\ \E c \in ChatCompletion(req[p]) :
         IF c.err
         THEN Return(p, req[p],
                     Touched(IF c.timeout THEN Touched(loc[p], "timeout") ELSE loc[p], "callerr"),
                     Failure(500, "BackendFailure"))
         ELSE LET l == [Touched(loc[p], "call") EXCEPT !.resp = c.resp]
              IN  IF ~req[p].stream
                  THEN Goto(p, "cacheSet", l)
                  ELSE Return(p, req[p], l, Success(c.resp))
    /\ UNCHANGED <<limiterVars, providers, cacheNil, store, now, admitted, boundVars>>

\* The response stored under the key of the streaming form of the request.
CacheStore_otherkey(p) ==
    /\ pc[p] = "cacheSet"
    /\ IF cacheNil
       THEN /\ Return(p, req[p], Touched(loc[p], "panic"), Failure(500, "panic"))
            /\ UNCHANGED store
       ELSE \E w \in CacheSet(store, generateCacheKey([req[p] EXCEPT !.stream = TRUE]),
                              loc[p].resp, now) :
              /\ store' = w.store
              /\ Return(p, req[p], Touched(loc[p], IF w.err = "nil" THEN "set" ELSE "seterr"),
                        Success(loc[p].resp))
    /\ UNCHANGED <<limiterVars, providers, cacheNil, now, admitted, boundVars>>

\* HandleChatCompletion: r.cache.Set for a non-streaming request, its error
\* dropped, then the provider's response is returned.
CacheStore(p) ==
    /\ pc[p] = "cacheSet"
    /\ IF cacheNil
       THEN /\ Return(p, req[p], Touched(loc[p], "panic"), Failure(500, "panic"))
            /\ UNCHANGED store
       ELSE \E w \in CacheSet(store, generateCacheKey(req[p]), loc[p].resp, now) :
              /\ store' = w.store
              /\ Return(p, req[p], Touched(loc[p], IF w.err = "nil" THEN "set" ELSE "seterr"),
                        Success(loc[p].resp))
    /\ UNCHANGED <<limiterVars, providers, cacheNil, now, admitted, boundVars>>

\* The instants, after 0, at which the clock is read.
Instants == {10, CacheTTL}
LimiterInstants == {1, 10}
TwinInstants == {15, 20}

\* Time passes; Redis expires the entries whose time-to-live is over.
Tick(t) ==
    /\ t > now
    /\ now' = t
    /\ store' = Expire(store, t)
    /\ UNCHANGED <<limiterVars, providers, cacheNil, pc, req, loc, last, log, metrics,
                   mainpc, admitted,
                   boundVars>>

\* Direct callers of the limiter; at most max calls are made in a run.
Call(p, r, max) ==
    /\ pc[p] = "idle"
    /\ nreq < max
    /\ nreq' = nreq + 1
    /\ pc' = [pc EXCEPT ![p] = "getBucket"]
    /\ req' = [req EXCEPT ![p] = r]
    /\ UNCHANGED <<limiterVars, providers, cacheNil, store, now, loc, last, log, metrics,
                   mainpc,
                   admitted, nrestarts>>

BeginCall(p, r) == Call(p, r, MaxCalls)

\* main: NewRateLimiter, NewRouter (with a nil cache when Redis did not answer),
\* RegisterProvider for the configured providers.  Nothing is in flight.
Started(cfg, rc) ==
    /\ defaultCapacity = cfg.capacity
    /\ defaultRefillRate = <<cfg.num, cfg.den>>
    /\ buckets = [u \in UserIDs |-> 0]
    /\ heap = <<>>
    /\ providers = rc.providers
    /\ cacheNil = rc.cacheNil
    /\ pc = [p \in Procs |-> "idle"]
    /\ req = [p \in Procs |-> NoReq]
    /\ loc = [p \in Procs |-> NoLoc]
    /\ last = NoLast
    /\ admitted = [u \in UserIDs |-> 0]
    /\ metrics = NoMetrics
    /\ mainpc = "serving"

\* The process is stopped and started again; the Redis keyspace and the clock
\* are outside it.
Restart ==
    /\ nrestarts < MaxRestarts
    /\ nrestarts' = nrestarts + 1
    /\ \E rc \in RouterConfigs :
         /\ defaultCapacity' = TightLimiter.capacity
         /\ defaultRefillRate' = <<TightLimiter.num, TightLimiter.den>>
         /\ buckets' = [u \in UserIDs |-> 0]
         /\ heap' = <<>>
         /\ providers' = rc.providers
         /\ cacheNil' = rc.cacheNil
    /\ pc' = [p \in Procs |-> "idle"]
    /\ req' = [p \in Procs |-> NoReq]
    /\ loc' = [p \in Procs |-> NoLoc]
    /\ last' = NoLast
    /\ admitted' = [u \in UserIDs |-> 0]
    /\ metrics' = NoMetrics
    /\ UNCHANGED <<store, now, nreq, log, mainpc>>

InitWith(cfg, rcs) ==
    /\ \E rc \in rcs : Started(cfg, rc)
    /\ log = NoLog
    /\ store = [k \in Keys |-> NoEntry]
    /\ now = 0
    /\ nreq = 0
    /\ nrestarts = 0

Init == InitWith(TightLimiter, RouterConfigs)

Handle(p) ==
    \/ getBucketRead(p)
    \/ getBucketWrite(p)
    \/ RateLimit(p)
    \/ ParseAndRoute(p)
    \/ CacheLookup(p)
    \/ CallProvider(p)
    \/ CacheStore(p)

\* The gateway serving POST /v1/chat/completions.
Next ==
    \/ \E p \in Procs, r \in Workload : BeginChat(p, r)
    \/ \E p \in Procs : Handle(p)
    \/ \E t \in Instants : Tick(t)

Spec == Init /\ [][Next]_vars

\* The gateway with restarts of the process.
NextRestart == Next \/ Restart
SpecRestart == Init /\ [][NextRestart]_vars

\* The rate limiter alone, called through Allow and Stats.
InitLimiter == InitWith(SlowLimiter, {[providers |-> {}, cacheNil |-> TRUE]})
NextLimiter ==
    \/ \E p \in Procs, r \in AllowCalls \cup StatsCalls : BeginCall(p, r)
    \/ \E p \in Procs : \/ getBucketRead(p)
                        \/ getBucketWrite(p)
                        \/ LimiterAllow(p)
                        \/ Stats(p)
    \/ \E t \in LimiterInstants : Tick(t)
SpecLimiter == InitLimiter /\ [][NextLimiter]_vars

\* A scenario run: one caller issues the tests' request again and again, each
\* request after the answer to the one before, and records the answers.  The
\* router is the tests' (nil cache, the mock provider registered as "mock") or has
\* a cache and the mock provider registered under the name the model resolves to.
ScenarioConfigs ==
    { [providers |-> {"mock"}, cacheNil |-> TRUE],
      [providers |-> {"openai"}, cacheNil |-> FALSE] }
TestGoroutine == {1}
InitScenario ==
    /\ \E rc \in ScenarioConfigs : Started(SlowLimiter, rc)
    /\ store = [k \in Keys |-> NoEntry]
    /\ now = 0
    /\ nreq = 0
    /\ nrestarts = 0
    /\ log = EmptyLog
NextScenario ==
    \/ \E p \in TestGoroutine : Arrive(p, TestRequest, ScenarioRequests)
    \/ \E p \in TestGoroutine : Handle(p)
    \/ \E t \in LimiterInstants : Tick(t)
SpecScenario == InitScenario /\ [][NextScenario]_vars

\* A limiter of any capacity up to MaxCapacity, called through Allow by one
\* goroutine, one call after the other, the results recorded.
InitBucket ==
    /\ \E c \in 0..MaxCapacity :
          Started([capacity |-> c, num |-> 1, den |-> 10], [providers |-> {}, cacheNil |-> TRUE])
    /\ store = [k \in Keys |-> NoEntry]
    /\ now = 0
    /\ nreq = 0
    /\ nrestarts = 0
    /\ log = EmptyLog
NextBucket ==
    \/ \E p \in TestGoroutine, r \in AllowCalls : Call(p, r, BucketCalls)
    \/ \E p \in TestGoroutine : \/ getBucketRead(p)
                                \/ getBucketWrite(p)
                                \/ LimiterAllow(p)
    \/ \E t \in LimiterInstants : Tick(t)
SpecBucket == InitBucket /\ [][NextBucket]_vars

\* The limiter with any capacity up to MaxCapacity, under concurrent callers.
InitContention ==
    /\ \E c \in 0..MaxCapacity :
          Started([capacity |-> c, num |-> 1, den |-> 10], [providers |-> {}, cacheNil |-> TRUE])
    /\ store = [k \in Keys |-> NoEntry]
    /\ now = 0
    /\ nreq = 0
    /\ nrestarts = 0
    /\ log = NoLog
SpecContention == InitContention /\ [][NextLimiter]_vars

\* generateCacheKey applied to requests that differ in each field of the body:
\* model, messages (two orders of the same two), temperature, max_tokens, stream.
FingerprintInputs ==
    { [op |-> "chat", user |-> "u1", cost |-> AdmissionCost, model |-> m, msg |-> ms,
       temperature |-> t, maxTokens |-> k, stream |-> s, wellFormed |-> TRUE] :
          m \in {GPT4, CLAUDE3}, ms \in {<<"a", "b">>, <<"b", "a">>},
          t \in {0, 1}, k \in {0, 1}, s \in BOOLEAN }
Fingerprint(p, r) ==
    /\ pc[p] = "idle"
    /\ req' = [req EXCEPT ![p] = r]
    /\ loc' = [loc EXCEPT ![p] = [NoLoc EXCEPT !.cacheKey = generateCacheKey(r)]]
    /\ UNCHANGED <<limiterVars, providers, cacheNil, store, now, pc, last, log, metrics,
                   mainpc, admitted,
                   boundVars>>
NextFingerprint == \E p \in Procs, r \in FingerprintInputs : Fingerprint(p, r)
SpecFingerprint == InitLimiter /\ [][NextFingerprint]_vars

\* The cache adapter called directly, next to a gateway that serves one
\* goroutine's requests through it.  The requests whose keys the calls use:
CacheRequests ==
    { r \in ChatRequestsOf({"u1"}) : r.model = GPT4 /\ ~r.stream /\ r.wellFormed }
CacheCalls ==
    { [op |-> o, key |-> generateCacheKey(r), val |-> v] :
          o \in {"get", "delete"}, r \in CacheRequests, v \in {NoResp} }
    \cup
    UNION { { [op |-> "set", key |-> generateCacheKey(r), val |-> v] : v \in Responses(r) } :
                r \in CacheRequests }
\* The caller of the adapter gets result g of call c.
Answered(c, g) ==
    /\ last' = [req |-> c, loc |-> NoLoc, outcome |-> NoOutcome, ret |-> g]
    /\ Record([req |-> c, trail |-> <<>>, outcome |-> NoOutcome, ret |-> g, at |-> now])
    /\ UNCHANGED <<metrics, mainpc>>
\* One call of RedisCache.Get, Set or Delete: one Redis command.
AdapterCall(c) ==
    /\ nreq < AdapterCalls
    /\ nreq' = nreq + 1
    /\ ~cacheNil
    /\ IF c.op = "get"
       THEN \E g \in CacheGet(store, c.key) : Answered(c, g) /\ UNCHANGED store
       ELSE \E w \in (IF c.op = "set" THEN CacheSet(store, c.key, c.val, now)
                                      ELSE CacheDelete(store, c.key)) :
              /\ store' = w.store
              /\ Answered(c, [err |-> w.err, val |-> NoResp])
    /\ UNCHANGED <<limiterVars, providers, cacheNil, now, pc, req, loc, admitted, nrestarts>>
InitCache ==
    /\ Started(SlowLimiter, [providers |-> {"openai", "anthropic"}, cacheNil |-> FALSE])
    /\ log = EmptyLog
    /\ store = [k \in Keys |-> NoEntry]
    /\ now = 0
    /\ nreq = 0
    /\ nrestarts = 0
NextCache ==
    \/ \E c \in CacheCalls : AdapterCall(c)
    \/ \E p \in TestGoroutine, r \in CacheRequests : Arrive(p, r, GatewayFirst)
    \/ \E p \in TestGoroutine : Handle(p)
    \/ \E t \in Instants : Tick(t)
SpecCache == InitCache /\ [][NextCache]_vars

\* A router whose chain is AuthMiddleware(ValidKeys) followed by
\* HandleChatCompletion.  A request carries an Authorization header and an
\* X-User-ID header, both chosen by the client.
AuthRequests ==
    { [op |-> "chat", user |-> u, cost |-> AdmissionCost, model |-> GPT4, msg |-> "Hello",
       stream |-> FALSE, wellFormed |-> TRUE, authorization |-> h] :
          u \in UserIDs, h \in AuthHeaders }
\* gin hands the request to the first handler of the chain.
AuthArrive(p, r) ==
    /\ mainpc = "serving"
    /\ pc[p] = "idle"
    /\ nreq < MaxRequests
    /\ nreq' = nreq + 1
    /\ pc' = [pc EXCEPT ![p] = "auth"]
    /\ req' = [req EXCEPT ![p] = r]
    /\ UNCHANGED <<limiterVars, providers, cacheNil, store, now, loc, last, log, metrics,
                   mainpc,
                   admitted, nrestarts>>
\* The middleware runs: 401 and c.Abort(), or c.Set("user_id", userID) and c.Next().
Authenticate(p) ==
    /\ pc[p] = "auth"
    /\ LET a == AuthMiddleware(ValidKeys, req[p].authorization)
       IN  IF a.abort
           THEN Return(p, req[p], Touched(loc[p], "abort"), Failure(401, a.kind))
           ELSE Goto(p, "identity", [Touched(loc[p], "auth") EXCEPT !.user_id = a.user_id])
    /\ UNCHANGED <<limiterVars, providers, cacheNil, store, now, admitted, boundVars>>
\* c.Next() enters HandleChatCompletion: its identity check on X-User-ID.
HandlerEntry(p) ==
    /\ pc[p] = "identity"
    /\ IF MissingIdentity(req[p])
       THEN Return(p, req[p], Touched(loc[p], "handler"), Failure(401, "MissingIdentity"))
       ELSE Goto(p, "getBucket", Touched(loc[p], "handler"))
    /\ UNCHANGED <<limiterVars, providers, cacheNil, store, now, admitted, boundVars>>
InitAuth ==
    /\ Started(TightLimiter, [providers |-> {"openai"}, cacheNil |-> FALSE])
    /\ log = EmptyLog
    /\ store = [k \in Keys |-> NoEntry]
    /\ now = 0
    /\ nreq = 0
    /\ nrestarts = 0
NextAuth ==
    \/ \E p \in TestGoroutine, r \in AuthRequests : AuthArrive(p, r)
    \/ \E p \in TestGoroutine : Authenticate(p)
    \/ \E p \in TestGoroutine : HandlerEntry(p)
    \/ \E p \in TestGoroutine : Handle(p)
SpecAuth == InitAuth /\ [][NextAuth]_vars

\* The gateway next to the recording functions of pkg/middleware.  Nothing in
\* the repository calls them: here they are called from outside the handler.
RecordCall ==
    /\ metrics.cache_hits_total + metrics.cache_misses_total
          + metrics.rate_limit_exceeded_total["u1"] < MetricCalls
    /\ \/ metrics' = RecordCacheHit(metrics)
       \/ metrics' = RecordCacheMiss(metrics)
       \/ metrics' = RecordRateLimitExceeded(metrics, "u1")
    /\ UNCHANGED <<limiterVars, providers, cacheNil, store, now, pc, req, loc, last, log,
                   mainpc, admitted, boundVars>>
InitMetrics == InitWith(TightLimiter, {[providers |-> {"openai"}, cacheNil |-> FALSE]})
NextMetrics ==
    \/ \E p \in TestGoroutine, r \in CacheRequests : BeginChat(p, r)
    \/ \E p \in TestGoroutine : Handle(p)
    \/ RecordCall
SpecMetrics == InitMetrics /\ [][NextMetrics]_vars

\* The gateway with its recorder on, every goroutine scheduled again and again:
\* a handler that can take a step takes one (each cache call returns, each
\* provider call returns or its client's Timeout expires).
LiveWorkload ==
    { r \in Workload : r.model = GPT4 }
InitLive ==
    /\ \E rc \in RouterConfigs : Started(TightLimiter, rc)
    /\ log = EmptyLog
    /\ store = [k \in Keys |-> NoEntry]
    /\ now = 0
    /\ nreq = 0
    /\ nrestarts = 0
NextLive ==
    \/ \E p \in Procs, r \in LiveWorkload : Arrive(p, r, LiveRequests)
    \/ \E p \in Procs : Handle(p)
SpecLive == InitLive /\ [][NextLive]_vars /\ \A p \in Procs : WF_vars(Handle(p))

\* A caller that empties its bucket with its first call and then retries
\* Allow(1) until it is admitted, at intervals of its choice, while the clock
\* runs second by second, up to RetryHorizon past the last refill of the bucket.
AllowCall(u, c) ==
    [op |-> "allow", user |-> u, cost |-> c, model |-> NoModel, msg |-> "",
     stream |-> FALSE, wellFormed |-> FALSE]
\* The first call: Allow(capacity).
FirstCall(p) ==
    /\ pc[p] = "idle"
    /\ nreq = 0
    /\ nreq' = 1
    /\ pc' = [pc EXCEPT ![p] = "getBucket"]
    /\ req' = [req EXCEPT ![p] = AllowCall("u1", defaultCapacity)]
    /\ UNCHANGED <<limiterVars, providers, cacheNil, store, now, loc, last, log, metrics,
                   mainpc, admitted, nrestarts>>
\* One more attempt, as long as none was admitted.
Retry(p) ==
    /\ pc[p] = "idle"
    /\ nreq = 1
    /\ buckets["u1"] # 0
    /\ admitted["u1"] = defaultCapacity
    /\ pc' = [pc EXCEPT ![p] = "getBucket"]
    /\ req' = [req EXCEPT ![p] = AllowCall("u1", 1)]
    /\ UNCHANGED <<limiterVars, providers, cacheNil, store, now, loc, last, log, metrics,
                   mainpc, admitted, boundVars>>
\* One second passes.
TickOne ==
    /\ now < RetryHorizon
              + (IF buckets["u1"] = 0 THEN 0 ELSE heap[buckets["u1"]].lastRefill)
    /\ Tick(now + 1)
LimiterStep(p) == getBucketRead(p) \/ getBucketWrite(p) \/ LimiterAllow(p)
InitRetry ==
    /\ \E c \in 1..MaxCapacity, den \in {5, 10} :
          Started([capacity |-> c, num |-> 1, den |-> den], [providers |-> {}, cacheNil |-> TRUE])
    /\ store = [k \in Keys |-> NoEntry]
    /\ now = 0
    /\ nreq = 0
    /\ nrestarts = 0
    /\ log = NoLog
NextRetry ==
    \/ \E p \in TestGoroutine : FirstCall(p)
    \/ \E p \in TestGoroutine : Retry(p)
    \/ \E p \in TestGoroutine : LimiterStep(p)
    \/ TickOne
SpecRetry ==
    /\ InitRetry /\ [][NextRetry]_vars
    /\ WF_vars(TickOne)
    /\ \A p \in TestGoroutine : WF_vars(Retry(p)) /\ WF_vars(LimiterStep(p))

\* Two callers of one limiter given the same Allow calls at the same instants,
\* u1's first and u2's right after it; u2 also calls Stats, at any instant
\* between two such pairs.
PairDone == last.req.op = "none" \/ last.req.user = "u2"
TwinAllow(p, c) == PairDone /\ Call(p, AllowCall("u1", c), TwinCalls)
TwinEcho(p) ==
    /\ last.req.op = "allow" /\ last.req.user = "u1"
    /\ Call(p, AllowCall("u2", last.req.cost), TwinCalls)
TwinStats(p) ==
    /\ PairDone
    /\ \E r \in StatsCalls : r.user = "u2" /\ Call(p, r, TwinCalls)
TwinTick(t) ==
    /\ PairDone
    /\ \A p \in Procs : pc[p] = "idle"
    /\ Tick(t)
InitTwin ==
    /\ Started(SlowLimiter, [providers |-> {}, cacheNil |-> TRUE])
    /\ store = [k \in Keys |-> NoEntry]
    /\ now = 0
    /\ nreq = 0
    /\ nrestarts = 0
    /\ log = EmptyLog
NextTwin ==
    \/ \E p \in TestGoroutine, c \in Costs : TwinAllow(p, c)
    \/ \E p \in TestGoroutine : TwinEcho(p)
    \/ \E p \in TestGoroutine : TwinStats(p)
    \/ \E p \in TestGoroutine : LimiterStep(p) \/ Stats(p)
    \/ \E t \in TwinInstants : TwinTick(t)
SpecTwin == InitTwin /\ [][NextTwin]_vars

\* ------------------------------------------------------------------ claims
BackendInvoked(tr) == Has(tr, "call") \/ Has(tr, "callerr")
CacheTouched(tr) ==
    Has(tr, "hit") \/ Has(tr, "miss") \/ Has(tr, "geterr") \/ Has(tr, "set")
        \/ Has(tr, "seterr") \/ Has(tr, "panic")

\* C1: every bucket of the limiter holds between 0 and capacity tokens, after any
\* interleaving of Allow (cost >= 0) and Stats calls and clock advances.
C1_TokensWithinCapacity ==
    \A i \in 1..Len(heap) : 0 <= heap[i].tokens /\ heap[i].tokens <= heap[i].capacity

\* A full bucket nobody spent from has gone through a refill that added tokens.
C1_Witness ==
    \E i \in 1..Len(heap) :
        /\ heap[i].lastRefill > heap[i].created
        /\ heap[i].tokens = heap[i].capacity
        /\ admitted[heap[i].owner] = 0

\* C2: under concurrent first use one bucket is allocated per caller and every call
\* works on the bucket the registry holds; so while no refill has added tokens the
\* cost admitted for a caller is at most the capacity.
C2_OneBucketPerCaller ==
    /\ \A i, j \in 1..Len(heap) : heap[i].owner = heap[j].owner => i = j
    /\ \A p \in Procs :
          pc[p] = "bucketOp" => loc[p].bucket # 0 /\ loc[p].bucket = buckets[req[p].user]
    /\ \A u \in Users :
          (buckets[u] # 0 /\ heap[buckets[u]].lastRefill = heap[buckets[u]].created)
              => admitted[u] <= defaultCapacity

\* Two calls of one caller both found no bucket under RLock and both are past getBucket.
C2_Witness ==
    \E p, q \in Procs :
        /\ p # q
        /\ pc[p] = "bucketOp" /\ pc[q] = "bucketOp"
        /\ req[p].user = req[q].user
        /\ ~loc[p].exists /\ ~loc[q].exists

\* A request arrived and no handler went on with it: it failed the identity check.
RejectedOnArrival == nreq' # nreq /\ pc' = pc

LeavesRateLimit(p) == pc[p] = "bucketOp" /\ req[p].op = "chat" /\ pc'[p] # "bucketOp"

\* C4: a request is answered 429 exactly when its caller's bucket, refilled, holds
\* less than the admission cost; the rejection leaves the bucket's tokens, the
\* admitted totals and the cache unchanged, and the request has been through no
\* other stage (no parsing, routing, cache access or backend call).
C4_RateLimitExceeded ==
    /\ [](last.outcome.status = 429 <=> last.loc.trail = <<"reject">>)
    /\ [][\A p \in Procs : LeavesRateLimit(p) =>
            LET b == loc[p].bucket
                rejected == pc'[p] = "idle" /\ last'.outcome = Failure(429, "RateLimitExceeded")
            IN  /\ rejected <=> refill(heap[b], now).tokens < AdmissionCost
                /\ rejected => /\ heap'[b].tokens = heap[b].tokens
                               /\ UNCHANGED <<store, admitted, buckets>>
                               /\ last'.loc.trail = <<"reject">>]_vars

\* A request was rejected by the limiter.
C4_Witness == last.outcome.status = 429 /\ last.loc.trail = <<"reject">>

\* C5: admission comes first and costs one token: the step that admits a request
\* takes exactly 1 from the refilled bucket, and no later stage of the request
\* (parsing, routing, cache lookup, provider call, cache store) touches the limiter.
C5_AdmissionCostsOne ==
    [][\A p \in Procs :
          /\ (LeavesRateLimit(p) /\ pc'[p] = "parse")
                => /\ heap'[loc[p].bucket].tokens
                        = refill(heap[loc[p].bucket], now).tokens - 1
                   /\ admitted'[req[p].user] = admitted[req[p].user] + 1
          /\ (pc[p] \in {"parse", "cacheGet", "call", "cacheSet"} /\ pc'[p] # pc[p])
                => UNCHANGED <<heap, buckets, admitted>>]_vars

\* An admitted request was served from the cache: it paid its token all the same.
C5_Witness ==
    /\ Has(last.loc.trail, "admit") /\ Has(last.loc.trail, "hit")
    /\ admitted[last.req.user] > 0
    /\ heap[last.loc.bucket].tokens < heap[last.loc.bucket].capacity

\* C6: a request whose cache lookup hits returns at once with the cached response:
\* no provider is invoked for it and the cache is not written.
C6_CacheHitShortCircuit ==
    /\ [](\A p \in Procs : ~Has(loc[p].trail, "hit"))
    /\ [](Has(last.loc.trail, "hit")
            => /\ last.outcome.status = 200
               /\ ~BackendInvoked(last.loc.trail)
               /\ ~Has(last.loc.trail, "set") /\ ~Has(last.loc.trail, "seterr")
               /\ last.loc.resp = NoResp)
    /\ [][\A p \in Procs :
            (pc[p] = "cacheGet" /\ pc'[p] = "idle" /\ Has(last'.loc.trail, "hit"))
                => /\ store' = store
                   /\ store[generateCacheKey(req[p])].present
                   /\ last'.outcome =
                          Success(UnmarshalResponse(store[generateCacheKey(req[p])].val))]_vars

\* A non-streaming request was answered from the cache.
C6_Witness ==
    /\ Has(last.loc.trail, "hit")
    /\ ~last.req.stream
    /\ last.outcome.status = 200

\* C7: every admitted, well-formed non-streaming request whose fingerprint is in
\* the cache is answered with the cached entry, whatever providers are registered
\* (the lookup comes before routing resolution).
C7_LookupBeforeRouting ==
    [][\A p \in Procs :
          (/\ pc[p] = "parse" /\ pc'[p] = "idle" /\ last'.req = req[p]
           /\ req[p].wellFormed /\ ~req[p].stream
           /\ ~cacheNil
           /\ store[generateCacheKey(req[p])].present)
              => last'.outcome =
                          Success(UnmarshalResponse(store[generateCacheKey(req[p])].val))]_vars

\* C8: a streaming request never reads or writes the cache, and once admitted and
\* routed to a registered provider it always reaches that provider.
C8_StreamingExclusion ==
    /\ [](\A p \in Procs :
            req[p].stream => pc[p] \notin {"cacheGet", "cacheSet"} /\ ~CacheTouched(loc[p].trail))
    /\ [](last.req.stream
            => /\ ~CacheTouched(last.loc.trail)
               /\ (Has(last.loc.trail, "route") /\ last.loc.providerName \in providers)
                     => BackendInvoked(last.loc.trail))
    /\ [][\A p \in Procs : (req[p].stream /\ pc'[p] # pc[p]) => store' = store]_vars

\* A streaming request was served by the provider while the same request without
\* stream is in the cache.
C8_Witness ==
    /\ last.req.stream
    /\ last.outcome.status = 200
    /\ Has(last.loc.trail, "call")
    /\ store[generateCacheKey([last.req EXCEPT !.stream = FALSE])].present

C10_NilCacheServes ==
    (/\ cacheNil
     /\ last.req.op = "chat" /\ ~last.req.stream
     /\ Has(last.loc.trail, "route") /\ last.loc.providerName \in providers)
        => /\ BackendInvoked(last.loc.trail)
           /\ \/ last.outcome = Success(last.loc.resp)
              \/ last.outcome = Failure(500, "BackendFailure")

\* C11: an admitted request for the model "llama-70b", which neither prefix rule
\* matches, ends as UnsupportedModel (400): no backend is invoked for it, and the
\* token of its admission is spent.
C11_LlamaUnsupported ==
    (last.req.op = "chat" /\ last.req.model = LLAMA /\ Has(last.loc.trail, "admit"))
        => /\ last.outcome = Failure(400, "UnsupportedModel")
           /\ ~BackendInvoked(last.loc.trail)
           /\ admitted[last.req.user] >= AdmissionCost

\* The routing table the code implements: ordered (prefix, backend) rules and the
\* default backend.
RoutingRules ==
    << [prefix |-> <<"g", "p", "t", "-">>, backend |-> "openai"],
       [prefix |-> <<"c", "l", "a", "u", "d", "e", "-">>, backend |-> "anthropic"] >>
DefaultBackend == "openai"
\* First match over the rules from position i on, the default when none matches.
RECURSIVE FirstMatch(_, _)
FirstMatch(model, i) ==
    IF i > Len(RoutingRules) THEN DefaultBackend
    ELSE IF HasPrefix(model, RoutingRules[i].prefix) THEN RoutingRules[i].backend
    ELSE FirstMatch(model, i + 1)

Precedes(tr, a, b) ==
    \A j \in 1..Len(tr) : tr[j] = b => \E i \in 1..(j - 1) : tr[i] = a
\* The order of a request's stages: admission, then routing, then the backend.
AdmitRouteCall(tr) ==
    /\ Precedes(tr, "admit", "route")
    /\ Precedes(tr, "route", "call")
    /\ Precedes(tr, "route", "callerr")

\* C13: for every request routing resolution comes after the admission check and
\* before any backend invocation; a backend is contacted only for a request that
\* was admitted and whose model resolved to a registered backend.
C13_RoutingBetween ==
    /\ \A p \in Procs :
          /\ AdmitRouteCall(loc[p].trail)
          /\ pc[p] \in {"getBucket", "getBucketLock", "bucketOp"} => loc[p].trail = <<>>
          /\ (pc[p] = "call" \/ BackendInvoked(loc[p].trail))
                => /\ Has(loc[p].trail, "admit") /\ Has(loc[p].trail, "route")
                   /\ loc[p].providerName \in providers
    /\ AdmitRouteCall(last.loc.trail)
    /\ BackendInvoked(last.loc.trail)
          => /\ Has(last.loc.trail, "admit") /\ Has(last.loc.trail, "route")
             /\ last.loc.providerName \in providers
    /\ (last.outcome.status \in {401, 429} \/ last.outcome.kind = "UnsupportedModel")
          => ~BackendInvoked(last.loc.trail)

\* A request went through admission, routing, the lookup, the backend and the store.
C13_Witness ==
    /\ last.loc.trail = <<"admit", "route", "miss", "call", "set">>
    /\ last.loc.providerName \in providers

\* The number of backend invocations in a trail.
RECURSIVE Invocations(_)
Invocations(tr) ==
    IF tr = <<>> THEN 0
    ELSE (IF Head(tr) \in {"call", "callerr"} THEN 1 ELSE 0) + Invocations(Tail(tr))

C15_MalformedFirst ==
    (last.req.op = "chat" /\ ~last.req.wellFormed)
        => /\ last.outcome = Failure(400, "MalformedRequest")
           /\ last.loc.bucket = 0
           /\ ~Has(last.loc.trail, "admit") /\ ~Has(last.loc.trail, "reject")
           /\ ~CacheTouched(last.loc.trail)
           /\ ~BackendInvoked(last.loc.trail)

\* The outcome kinds of the specification, each with its code.
OutcomeCodes ==
    [MissingIdentity |-> 401, RateLimitExceeded |-> 429, MalformedRequest |-> 400,
     UnsupportedModel |-> 400, BackendFailure |-> 500, ok |-> 200]

\* C16: every answered request has one outcome, of one of the kinds MissingIdentity
\* (401), RateLimitExceeded (429), MalformedRequest (400), UnsupportedModel (400),
\* BackendFailure (500) or success (200), each always with that code; 429 is only
\* answered to a request the limiter rejected and 500 only to one whose backend
\* invocation failed.
C16_StableCodes ==
    last.req.op = "chat"
        => /\ last.outcome.kind \in DOMAIN OutcomeCodes
           /\ last.outcome.status = OutcomeCodes[last.outcome.kind]
           /\ last.outcome.status = 429 => Has(last.loc.trail, "reject")
           /\ last.outcome.status = 500 => Has(last.loc.trail, "callerr")

\* No cache error and no backend error on the way of a request.
NoFault(tr) == ~Has(tr, "geterr") /\ ~Has(tr, "seterr") /\ ~Has(tr, "callerr")
\* The third answer came before the limiter's rate had made one token.
BackToBack(e) == (e[3].at * defaultRefillRate[1]) \div defaultRefillRate[2] = 0

C18_ProviderResponseReturned ==
    /\ (/\ last.req.op = "chat" /\ last.req.wellFormed
        /\ Has(last.loc.trail, "admit") /\ ~Has(last.loc.trail, "callerr")
        /\ ~cacheNil /\ last.loc.providerName \in providers)
          => /\ last.outcome.status = 200
             /\ last.outcome.resp \in Responses(last.req)
             /\ Has(last.loc.trail, "call") => last.outcome.resp = last.loc.resp
    /\ (/\ last.req = TestRequest /\ Has(last.loc.trail, "admit")
        /\ cacheNil /\ providers = {"mock"})
          => /\ last.outcome = Success(last.loc.resp)
             /\ Has(last.loc.trail, "call")

\* The recorded calls of caller u, in order.
CallsOf(u) ==
    LET OfCaller(e) == e.req.user = u IN SelectSeq(log.entries, OfCaller)
\* Every recorded call of u so far was Allow(u, 1), made at the instant u's bucket
\* was created.
OnlyUnitCallsAtOnce(u) ==
    \A i \in 1..Len(CallsOf(u)) :
        /\ CallsOf(u)[i].req.op = "allow" /\ CallsOf(u)[i].req.cost = 1
        /\ CallsOf(u)[i].at = heap[buckets[u]].created

\* C19: on a fresh bucket of capacity C, with no time elapsed, the i-th consecutive
\* Allow(1) is admitted exactly when i <= C; after k calls the bucket holds C - k
\* tokens while k <= C and 0 from then on: C calls leave 0 tokens, and the (C+1)-th
\* is rejected and leaves 0.
C19_FreshBucketDrains ==
    \A u \in Users :
        (log.on /\ buckets[u] # 0 /\ OnlyUnitCallsAtOnce(u))
            => LET e == CallsOf(u)
                   C == heap[buckets[u]].capacity
               IN  /\ \A i \in 1..Len(e) : e[i].ret.ok <=> i <= C
                   /\ heap[buckets[u]].tokens = (IF Len(e) <= C THEN C - Len(e) ELSE 0)

\* With the largest capacity, one call more than the capacity was made at once: all
\* but the last admitted, the bucket at 0.
C19_Witness ==
    \E u \in Users :
        /\ log.on /\ buckets[u] # 0 /\ OnlyUnitCallsAtOnce(u)
        /\ heap[buckets[u]].capacity = MaxCapacity
        /\ Len(CallsOf(u)) = MaxCapacity + 1
        /\ CallsOf(u)[MaxCapacity].ret.ok
        /\ ~CallsOf(u)[MaxCapacity + 1].ret.ok
        /\ heap[buckets[u]].tokens = 0

\* C20: a call Allow(caller, cost) is admitted exactly when the bucket, refilled at
\* the time of the call, holds at least cost tokens; an admitted call leaves the
\* refilled amount less cost, a rejected call leaves the refilled amount; no other
\* bucket changes.
C20_AllowFrame ==
    [][\A p \in Procs :
          (/\ pc[p] = "bucketOp" /\ req[p].op = "allow"
           /\ pc'[p] = "idle" /\ last'.req = req[p])
              => LET b == loc[p].bucket
                     r == refill(heap[b], now)
                 IN  /\ last'.ret.ok <=> r.tokens >= req[p].cost
                     /\ last'.ret.ok => heap'[b].tokens = r.tokens - req[p].cost
                     /\ ~last'.ret.ok => heap'[b].tokens = r.tokens
                     /\ heap'[b].lastRefill = r.lastRefill
                     /\ \A i \in 1..Len(heap) : i # b => heap'[i] = heap[i]]_vars

\* A call was rejected by a bucket that a refill had brought to 1 token: it asked
\* for 2, and the token is still there.
C20_Witness ==
    /\ last.req.op = "allow" /\ last.req.cost = 2 /\ ~last.ret.ok
    /\ heap[last.loc.bucket].tokens = 1
    /\ heap[last.loc.bucket].lastRefill > heap[last.loc.bucket].created

\* The cost of the first d recorded calls.
RECURSIVE Spent(_, _)
Spent(e, d) == IF d = 0 THEN 0 ELSE e[d].req.cost + Spent(e, d - 1)
\* The first d calls were all admitted at the instant the bucket was created and
\* took all of its capacity.
DrainedAtOnce(e, d, tb) ==
    /\ \A i \in 1..d : e[i].ret.ok /\ e[i].at = tb.created
    /\ Spent(e, d) = tb.capacity
\* floor(elapsed * refillRate) for the time from the bucket's creation to t.
Accrued(tb, t) == ((t - tb.created) * tb.refillRate[1]) \div tb.refillRate[2]

C22_NeverOverDelivers ==
    \A u \in Users :
        buckets[u] # 0
            => admitted[u] <= heap[buckets[u]].capacity + Accrued(heap[buckets[u]], now)

\* A caller has been admitted its capacity and the one token accrued since.
C22_Witness ==
    \E u \in Users :
        /\ buckets[u] # 0
        /\ Accrued(heap[buckets[u]], now) >= 1
        /\ admitted[u] = heap[buckets[u]].capacity + Accrued(heap[buckets[u]], now)

\* C23: Stats(caller) refills the caller's bucket and reports: capacity is the
\* configured capacity, available is the bucket's tokens after the refill, between 0
\* and capacity; the bucket is left as the refill left it, so its tokens are never
\* lower than before the call, and nothing is admitted.
C23_StatsReports ==
    [][\A p \in Procs :
          (/\ pc[p] = "bucketOp" /\ req[p].op = "stats"
           /\ pc'[p] = "idle" /\ last'.req = req[p])
              => LET b == loc[p].bucket
                     r == refill(heap[b], now)
                 IN  /\ last'.ret.capacity = defaultCapacity
                     /\ last'.ret.available = r.tokens
                     /\ 0 <= last'.ret.available /\ last'.ret.available <= defaultCapacity
                     /\ heap'[b] = r
                     /\ heap'[b].tokens >= heap[b].tokens
                     /\ admitted' = admitted]_vars

\* Stats reported one token, which a refill had just added to a drained bucket.
C23_Witness ==
    /\ last.req.op = "stats"
    /\ last.ret.available = 1 /\ last.ret.capacity = 2
    /\ heap[last.loc.bucket].lastRefill = now
    /\ heap[last.loc.bucket].lastRefill > heap[last.loc.bucket].created
    /\ admitted[last.req.user] = 2

\* C24: refill-then-consume on one bucket is atomic.  While no refill has added
\* tokens, the bucket's tokens are capacity less the cost admitted, never below 0
\* (no lost update, no double spend); so when concurrent Allow(caller, 1) calls
\* outnumber the tokens, the one rejected finds every token admitted and tokens 0.
C24_AtomicConsume ==
    /\ [](\A u \in Users :
            (buckets[u] # 0
             /\ heap[buckets[u]].lastRefill = heap[buckets[u]].created)
                => /\ heap[buckets[u]].tokens >= 0
                   /\ heap[buckets[u]].tokens + admitted[u] = heap[buckets[u]].capacity)
    /\ [][\A p \in Procs :
            (/\ pc[p] = "bucketOp" /\ req[p].op = "allow" /\ req[p].cost = 1
             /\ pc'[p] = "idle" /\ last'.req = req[p] /\ ~last'.ret.ok
             /\ heap'[loc[p].bucket].lastRefill = heap'[loc[p].bucket].created)
                => /\ heap'[loc[p].bucket].tokens = 0
                   /\ admitted'[req[p].user] = heap[loc[p].bucket].capacity]_vars

\* Two concurrent Allow(caller, 1) on a bucket of one token: the call that had
\* found no bucket under RLock was rejected, the other admitted, tokens at 0.
C24_Witness ==
    /\ last.req.op = "allow" /\ last.req.cost = 1 /\ ~last.ret.ok
    /\ ~last.loc.exists
    /\ heap[last.loc.bucket].capacity = 1
    /\ heap[last.loc.bucket].tokens = 0
    /\ heap[last.loc.bucket].lastRefill = heap[last.loc.bucket].created
    /\ admitted[last.req.user] = 1

\* C25: callers are isolated.  A call works on the bucket of its own caller only;
\* a step changes a bucket only when it is the Allow or Stats of that bucket's
\* caller returning, and changes a caller's registry entry only when it is that
\* caller's own first use: the tokens and lastRefill of every other caller's bucket
\* stay as they are, and with them that caller's admit/reject decisions.
C25_CallersIsolated ==
    /\ [](\A p \in Procs :
            pc[p] = "bucketOp" => heap[loc[p].bucket].owner = req[p].user)
    /\ [][\A i \in 1..Len(heap) :
            heap'[i] # heap[i]
                => \E p \in Procs :
                      /\ pc[p] = "bucketOp" /\ pc'[p] = "idle"
                      /\ loc[p].bucket = i /\ req[p].user = heap[i].owner]_vars
    /\ [][\A u \in Users :
            buckets'[u] # buckets[u]
                => \E p \in Procs :
                      pc[p] = "getBucketLock" /\ pc'[p] = "bucketOp" /\ req[p].user = u]_vars

\* One caller has drained its bucket; the other caller's bucket is still full.
C25_Witness ==
    \E u, v \in Users :
        /\ u # v /\ buckets[u] # 0 /\ buckets[v] # 0
        /\ last.req.op = "allow" /\ last.req.user = u /\ last.ret.ok
        /\ heap[buckets[u]].tokens = 0
        /\ heap[buckets[v]].tokens = heap[buckets[v]].capacity
        /\ heap[buckets[v]].lastRefill = heap[buckets[v]].created

\* Two requests equal in model, messages, temperature and max_tokens.
SameContent(a, b) ==
    /\ a.model = b.model /\ a.msg = b.msg
    /\ a.temperature = b.temperature /\ a.maxTokens = b.maxTokens

\* C26: the fingerprint depends on exactly model, messages (in order), temperature
\* and max_tokens: two requests have the same fingerprint exactly when they are
\* equal in these four, whatever their stream flags.
C26_FingerprintFields ==
    \A p, q \in Procs :
        (loc[p].cacheKey # <<>> /\ loc[q].cacheKey # <<>>)
            => (loc[p].cacheKey = loc[q].cacheKey <=> SameContent(req[p], req[q]))

\* The handler attempted a cache write.
WriteAttempted(tr) == Has(tr, "set") \/ Has(tr, "seterr")

\* C27: a cache entry is written only by the store step of a non-streaming request
\* whose provider call succeeded, under the key that request looked up and with
\* the provider's response as value, every other key left alone; a streaming
\* request, a request whose provider call failed and a request rejected before
\* the call never attempt a write.
C27_WriteAfterSuccess ==
    /\ [][\A k \in Keys :
            (store'[k] # store[k] /\ store'[k].present)
                => \E p \in Procs :
                      /\ pc[p] = "cacheSet" /\ pc'[p] = "idle" /\ last'.req = req[p]
                      /\ ~req[p].stream
                      /\ Has(loc[p].trail, "call") /\ ~Has(loc[p].trail, "callerr")
                      /\ loc[p].resp \in Responses(req[p])
                      /\ k = loc[p].cacheKey
                      /\ store'[k].val = MarshalResponse(loc[p].resp)
                      /\ \A j \in Keys \ {k} : store'[j] = store[j]]_vars
    /\ [][\A p \in Procs :
            (pc[p] = "cacheSet" /\ pc'[p] = "idle" /\ Has(last'.loc.trail, "set"))
                => /\ loc[p].cacheKey = generateCacheKey(req[p])
                   /\ store'[loc[p].cacheKey] =
                          [present |-> TRUE, val |-> MarshalResponse(loc[p].resp),
                           exp |-> now + CacheTTL]
                   /\ last'.outcome = Success(loc[p].resp)]_vars
    /\ [](\A p \in Procs :
            pc[p] = "cacheSet"
                => ~req[p].stream /\ Has(loc[p].trail, "call") /\ Has(loc[p].trail, "admit"))
    /\ [](WriteAttempted(last.loc.trail)
            => /\ ~last.req.stream
               /\ last.outcome.status = 200
               /\ Has(last.loc.trail, "call") /\ ~Has(last.loc.trail, "callerr"))

\* A non-streaming request missed the cache, was served by its provider, and its
\* response is now in the cache under the key it looked up.
C27_Witness ==
    /\ Has(last.loc.trail, "miss") /\ Has(last.loc.trail, "call")
    /\ Has(last.loc.trail, "set")
    /\ ~last.req.stream
    /\ last.loc.cacheKey = generateCacheKey(last.req)
    /\ store[last.loc.cacheKey].present
    /\ store[last.loc.cacheKey].val = MarshalResponse(last.loc.resp)
    /\ last.outcome = Success(last.loc.resp)

\* Entry e of the history is a write of key k that Redis acknowledged: a Set or a
\* Delete of the adapter, or the store at the end of a request of the gateway.
Writes(e, k) ==
    \/ e.req.op \in {"set", "delete"} /\ e.req.key = k /\ e.ret.err = "nil"
    \/ e.req.op = "chat" /\ Has(e.trail, "set") /\ generateCacheKey(e.req) = k

\* The value entry e wrote.
Written(e) == IF e.req.op = "set" THEN e.req.val ELSE e.outcome.resp

\* The last write of k among the first i entries of the history, 0 if none.
RECURSIVE LatestWrite(_, _)
LatestWrite(i, k) ==
    IF i = 0 THEN 0
    ELSE IF Writes(log.entries[i], k) THEN i
    ELSE LatestWrite(i - 1, k)

\* Key k holds a value at instant t, by the first i entries of the history: its
\* last write is a Set less than the time-to-live ago.
LiveAt(i, k, t) ==
    LET j == LatestWrite(i, k)
    IN  /\ j > 0
        /\ log.entries[j].req.op # "delete"
        /\ t < log.entries[j].at + CacheTTL

BearerOf(k) == BEARER \o SP \o k
\* The header presents a key of the map.
PresentsValidKey(h) == \E k \in DOMAIN ValidKeys : h = BearerOf(k)
\* The header presents a key of the map that holds no space.
PresentsValidToken(h) == \E k \in DOMAIN ValidKeys : ~Has(k, " ") /\ h = BearerOf(k)
\* What follows "Bearer " in the header.
KeyOf(h) == SubSeq(h, Len(BEARER) + 2, Len(h))

\* C30 (as stated): a request whose Authorization header is "Bearer <key>" with
\* <key> in the valid-keys map reaches the next handler, and every other request
\* is answered 401 by the middleware.
C30_AnyValidKey ==
    \A i \in 1..Len(log.entries) :
        LET e == log.entries[i]
        IN  PresentsValidKey(e.req.authorization) <=> Has(e.trail, "handler")

\* C30 (amended): the middleware passes a request on iff its Authorization header
\* is "Bearer <key>" with <key> a key of the map free of spaces, and user_id in
\* the context is then the map's value for that key; every other request is
\* answered 401 by the middleware and the chain is aborted: the next handler does
\* not run, no bucket, cache entry or admission count changes.
C30_BearerGate ==
    /\ [][\A p \in Procs :
            (pc[p] = "auth" /\ pc'[p] # "auth")
                => IF PresentsValidToken(req[p].authorization)
                   THEN /\ pc'[p] = "identity"
                        /\ req'[p] = req[p]
                        /\ loc'[p].user_id = ValidKeys[KeyOf(req[p].authorization)]
                        /\ last' = last
                   ELSE /\ pc'[p] = "idle"
                        /\ last'.req = req[p]
                        /\ last'.outcome.status = 401
                        /\ last'.outcome.kind # "MissingIdentity"
                        /\ last'.loc.trail = <<"abort">>
                        /\ UNCHANGED <<limiterVars, store, admitted>>]_vars
    /\ [](\A p \in Procs :
            pc[p] \notin {"idle", "auth"}
                => /\ PresentsValidToken(req[p].authorization)
                   /\ loc[p].user_id = ValidKeys[KeyOf(req[p].authorization)])
    /\ [](\A i \in 1..Len(log.entries) :
            LET e == log.entries[i]
            IN  /\ PresentsValidToken(e.req.authorization) <=> Has(e.trail, "handler")
                /\ ~PresentsValidToken(e.req.authorization)
                      => e.trail = <<"abort">> /\ e.outcome.status = 401)

\* One request was answered 401 by the middleware, and another, presenting a
\* valid key, ran through the handler behind it and was served.
C30_Witness ==
    \E i, j \in 1..Len(log.entries) :
        /\ log.entries[i].trail = <<"abort">>
        /\ log.entries[i].outcome = Failure(401, "invalid API key")
        /\ log.entries[j].req.authorization = BearerOf(K2)
        /\ log.entries[j].trail[1] = "auth" /\ log.entries[j].trail[2] = "handler"
        /\ log.entries[j].outcome.status = 200

\* C29: a request is charged to the bucket of the identity the authentication
\* middleware established for it (user_id), and buckets exist only for
\* identities the middleware established, so a client has one bucket whatever
\* identity value it sends itself.
C29_KeyIsAuthenticatedIdentity ==
    /\ \A p \in Procs :
          pc[p] = "bucketOp" => heap[loc[p].bucket].owner = loc[p].user_id
    /\ \A u \in UserIDs :
          buckets[u] # 0
              => \/ \E p \in Procs : pc[p] \notin {"idle", "auth"} /\ loc[p].user_id = u
                 \/ \E i \in 1..Len(log.entries) :
                       /\ Has(log.entries[i].trail, "auth")
                       /\ AuthMiddleware(ValidKeys, log.entries[i].req.authorization).user_id = u

\* C31: the handler step that rejects a request for its rate limit adds one to
\* rate_limit_exceeded_total of that caller, and the handler step that looks the
\* cache up adds one to exactly one of cache_hits_total and cache_misses_total.
C31_DecisionsRecorded ==
    [][\A p \in Procs :
          /\ (/\ pc[p] = "bucketOp" /\ pc'[p] = "idle" /\ last'.req = req[p]
              /\ last'.outcome = Failure(429, "RateLimitExceeded"))
                => metrics'.rate_limit_exceeded_total[req[p].user]
                      = metrics.rate_limit_exceeded_total[req[p].user] + 1
          /\ (pc[p] = "cacheGet" /\ pc'[p] # "cacheGet")
                => metrics'.cache_hits_total + metrics'.cache_misses_total
                      = metrics.cache_hits_total + metrics.cache_misses_total + 1]_vars

\* The goroutines with a request in hand.
InFlight == { p \in Procs : pc[p] # "idle" }

TokensToAdd(tb, t) == ((t - tb.lastRefill) * tb.refillRate[1]) \div tb.refillRate[2]

\* C33: lastRefill moves only in a call whose refill adds tokens, and then to the
\* instant of the call; a call that computes tokensToAdd = 0 and is rejected
\* leaves the bucket as it was; so a caller that has emptied its bucket and keeps
\* retrying Allow(1), at whatever intervals, is admitted in the end.
C33_RetryAdmitted ==
    /\ [][\A b \in 1..Len(heap) :
            /\ heap'[b].lastRefill # heap[b].lastRefill
                  => /\ TokensToAdd(heap[b], now) > 0
                     /\ heap'[b].lastRefill = now
            /\ TokensToAdd(heap[b], now) = 0 => heap'[b].lastRefill = heap[b].lastRefill]_vars
    /\ [][\A p \in Procs :
            (/\ pc[p] = "bucketOp" /\ pc'[p] = "idle"
             /\ TokensToAdd(heap[loc[p].bucket], now) = 0
             /\ ~last'.ret.ok)
                => heap' = heap]_vars
    /\ (buckets["u1"] # 0 /\ admitted["u1"] = defaultCapacity)
          ~> (admitted["u1"] = defaultCapacity + 1)

\* The caller, its bucket emptied, was admitted on a retry by a refill at an
\* instant after the bucket was made.
C33_Witness ==
    /\ buckets["u1"] # 0
    /\ admitted["u1"] = defaultCapacity + 1
    /\ last.req = AllowCall("u1", 1) /\ last.ret.ok
    /\ heap[buckets["u1"]].lastRefill = now
    /\ now > heap[buckets["u1"]].created

\* C34: an entry of the registry, once made, maps its caller to the same bucket
\* in every later state; an entry is made only by the first Allow or Stats of
\* that caller, in getBucket's section under Lock, for a fresh bucket with tokens
\* = capacity; buckets are never dropped, and every call that returned has left
\* its caller a bucket.
C34_RegistryGrows ==
    /\ [][\A u \in UserIDs : buckets[u] # 0 => buckets'[u] = buckets[u]]_vars
    /\ [][\A u \in UserIDs :
            (buckets[u] = 0 /\ buckets'[u] # 0)
                => /\ \E p \in Procs :
                         /\ pc[p] = "getBucketLock" /\ pc'[p] = "bucketOp"
                         /\ req[p].user = u /\ req[p].op \in {"allow", "stats"}
                         /\ loc'[p].bucket = buckets'[u]
                   /\ buckets'[u] = Len(heap) + 1
                   /\ heap' = Append(heap, heap'[Len(heap) + 1])
                   /\ heap'[buckets'[u]].owner = u
                   /\ heap'[buckets'[u]].capacity = defaultCapacity
                   /\ heap'[buckets'[u]].tokens = defaultCapacity]_vars
    /\ [][/\ Len(heap') >= Len(heap)
          /\ \A b \in 1..Len(heap) : heap'[b].owner = heap[b].owner]_vars
    /\ [](last.req.op \in {"allow", "stats"}
            => /\ buckets[last.req.user] # 0
               /\ buckets[last.req.user] = last.loc.bucket)

\* A caller's second call found, under RLock, the bucket its first call had made,
\* and both worked on it.
C34_Witness ==
    \E u \in Users :
        /\ buckets[u] # 0
        /\ last.req.user = u /\ last.req.op \in {"allow", "stats"}
        /\ last.loc.exists
        /\ last.loc.bucket = buckets[u]
        /\ heap[buckets[u]].tokens < heap[buckets[u]].capacity
        /\ nreq = MaxCalls

\* The Allow calls of caller u in the history, in order.
AllowsOf(u) ==
    LET OfCaller(e) == e.req.op = "allow" /\ e.req.user = u
    IN  SelectSeq(log.entries, OfCaller)

\* C35: of two callers given the same Allow calls at the same instants, one of
\* which also calls Stats in between, every Allow call gets the same answer for
\* both.
C35_StatsTransparent ==
    \A k \in 1..Len(AllowsOf("u2")) :
        /\ AllowsOf("u1")[k].req.cost = AllowsOf("u2")[k].req.cost
        /\ AllowsOf("u1")[k].at = AllowsOf("u2")[k].at
        /\ AllowsOf("u1")[k].ret.ok = AllowsOf("u2")[k].ret.ok

\* ------------------------------------------------- Allow with any integer cost
\* The tokens argument of Allow is an int64: the calls below pass negative, zero
\* and positive costs.
SignedCalls == 3
SignedCosts == -2..2
SignedAllowCalls ==
    { [op |-> "allow", user |-> u, cost |-> c, model |-> NoModel, msg |-> "",
       stream |-> FALSE, wellFormed |-> FALSE] : u \in Users, c \in SignedCosts }
InitSigned ==
    /\ \E c \in 0..MaxCapacity :
          Started([capacity |-> c, num |-> 1, den |-> 10], [providers |-> {}, cacheNil |-> TRUE])
    /\ store = [k \in Keys |-> NoEntry]
    /\ now = 0
    /\ nreq = 0
    /\ nrestarts = 0
    /\ log = NoLog
NextSigned ==
    \/ \E p \in TestGoroutine, r \in SignedAllowCalls : Call(p, r, SignedCalls)
    \/ \E p \in TestGoroutine : \/ getBucketRead(p)
                                \/ getBucketWrite(p)
                                \/ LimiterAllow(p)
    \/ \E t \in LimiterInstants : Tick(t)
SpecSigned == InitSigned /\ [][NextSigned]_vars

\* C36: for every integer cost, negative and zero included, the bucket's tokens
\* after Allow are not greater than its tokens right after the refill step of that
\* call.
C36_NoTokensCreated ==
    [][\A p \in Procs :
          (/\ pc[p] = "bucketOp" /\ req[p].op = "allow"
           /\ pc'[p] = "idle" /\ last'.req = req[p])
              => heap'[loc[p].bucket].tokens
                     <= refill(heap[loc[p].bucket], now).tokens]_vars

\* ------------------------------------------------- concurrent requests, one cache
\* Requests of two fingerprints that the same provider serves ("gpt-4" and
\* "llama-70b", the latter by the default rule), in flight together, with a
\* limiter that admits them all.
SharedRequests == 3
SharedWorkload ==
    { r \in ChatRequestsOf({"u1"}) : r.model \in {GPT4, LLAMA} /\ ~r.stream /\ r.wellFormed }
InitShared ==
    /\ Started([capacity |-> SharedRequests + 1, num |-> 1, den |-> 10],
               [providers |-> {"openai"}, cacheNil |-> FALSE])
    /\ log = NoLog
    /\ store = [k \in Keys |-> NoEntry]
    /\ now = 0
    /\ nreq = 0
    /\ nrestarts = 0
NextShared ==
    \/ \E p \in Procs, r \in SharedWorkload : Arrive(p, r, SharedRequests)
    \/ \E p \in Procs : Handle(p)
SpecShared == InitShared /\ [][NextShared]_vars

\* The responses a backend can have returned for a request whose fingerprint is k.
ProducedFor(k) ==
    UNION { Responses(r) : r \in { q \in ChatRequests : q.wellFormed /\ generateCacheKey(q) = k } }

\* C37: under any interleaving of concurrent requests, every entry of the cache
\* maps a fingerprint to a response a backend returned for a request with that
\* fingerprint, and a cache hit returns to a request a response produced for a
\* request with the fingerprint of that request.
C37_CacheIntegrity ==
    /\ [](\A k \in Keys :
            store[k].present => UnmarshalResponse(store[k].val) \in ProducedFor(k))
    /\ [][\A p \in Procs :
            (/\ pc[p] = "cacheGet" /\ pc'[p] = "idle" /\ last'.req = req[p]
             /\ Has(last'.loc.trail, "hit"))
                => /\ last'.outcome.kind = "ok"
                   /\ last'.outcome.resp \in ProducedFor(generateCacheKey(req[p]))
                   /\ last'.outcome.resp =
                          UnmarshalResponse(store[generateCacheKey(req[p])].val)]_vars

\* Two requests of different fingerprints have each stored their response, and a
\* third request got the stored response of its own fingerprint from the cache.
C37_Witness ==
    /\ Cardinality({ k \in Keys : store[k].present }) = 2
    /\ \A k \in Keys : store[k].present => UnmarshalResponse(store[k].val).model = k[2].model
    /\ Has(last.loc.trail, "hit")
    /\ last.outcome = Success(UnmarshalResponse(store[generateCacheKey(last.req)].val))
    /\ last.outcome.resp.model = last.req.model

\* C38: once a response has been stored for a fingerprint, the entry is not
\* overwritten by a different response while it is live, under any interleaving
\* of concurrent identical requests, so that every hit before the entry expires
\* returns the response stored first.
C38_LiveEntryStable ==
    [][\A k \in Keys :
          (store[k].present /\ store[k].exp > now' /\ store'[k].present)
              => store'[k].val = store[k].val]_vars

\* ------------------------------------------------- main, from NewRouter to serving
\* Router.RegisterProvider: r.providers[name] = provider.
RegisterProvider(ps, name) == ps \cup {name}

\* main after NewRouter: the registry is empty and the server does not listen.
StartupRequests == 2
StartupWorkload ==
    { r \in ChatRequestsOf({"u1"}) : r.model \in {GPT4, CLAUDE3} /\ ~r.stream /\ r.wellFormed }
InitStartup ==
    /\ defaultCapacity = SlowLimiter.capacity
    /\ defaultRefillRate = <<SlowLimiter.num, SlowLimiter.den>>
    /\ buckets = [u \in UserIDs |-> 0]
    /\ heap = <<>>
    /\ providers = {}
    /\ cacheNil \in BOOLEAN
    /\ pc = [p \in Procs |-> "idle"]
    /\ req = [p \in Procs |-> NoReq]
    /\ loc = [p \in Procs |-> NoLoc]
    /\ last = NoLast
    /\ admitted = [u \in UserIDs |-> 0]
    /\ metrics = NoMetrics
    /\ mainpc = "registerOpenAI"
    /\ log = NoLog
    /\ store = [k \in Keys |-> NoEntry]
    /\ now = 0
    /\ nreq = 0
    /\ nrestarts = 0

\* main: the step at label at registers name when its API key is in the
\* environment, and goes on to label next.
RegisterIfKey(at, name, next) ==
    /\ mainpc = at
    /\ \E keySet \in BOOLEAN :
          providers' = IF keySet THEN RegisterProvider(providers, name) ELSE providers
    /\ mainpc' = next
    /\ UNCHANGED <<limiterVars, cacheNil, store, now, pc, req, loc, last, log, metrics,
                   admitted, boundVars>>

\* main: the routes are set up and the goroutine running srv.ListenAndServe is
\* started; from here on requests are handled.
ListenAndServe ==
    /\ mainpc = "listen"
    /\ mainpc' = "serving"
    /\ UNCHANGED <<limiterVars, providers, cacheNil, store, now, pc, req, loc, last, log,
                   metrics, admitted, boundVars>>

NextStartup ==
    \/ RegisterIfKey("registerOpenAI", "openai", "registerAnthropic")
    \/ RegisterIfKey("registerAnthropic", "anthropic", "listen")
    \/ ListenAndServe
    \/ \E p \in Procs, r \in StartupWorkload : Arrive(p, r, StartupRequests)
    \/ \E p \in Procs : Handle(p)
    \/ \E t \in LimiterInstants : Tick(t)
SpecStartup == InitStartup /\ [][NextStartup]_vars

\* The backend a request for model is dispatched to with registry ps, "" when
\* the request is refused as unsupported.
Resolved(model, ps) ==
    IF getProviderFromModel(model) \in ps THEN getProviderFromModel(model) ELSE ""

\* C39: every RegisterProvider call happens before the server starts handling
\* requests: the providers map is written only by main before it serves, with no
\* handler in flight, no request is handled before main serves, and once main
\* serves the map and the backend resolved for each model never change.
C39_RegistryImmutable ==
    /\ [][providers' # providers
            => /\ mainpc # "serving"
               /\ \A p \in Procs : pc[p] = "idle" /\ pc'[p] = "idle"]_vars
    /\ [](\A p \in Procs : pc[p] # "idle" => mainpc = "serving")
    /\ [][mainpc = "serving"
            => /\ mainpc' = "serving"
               /\ providers' = providers
               /\ \A m \in Models : Resolved(m, providers') = Resolved(m, providers)]_vars

\* main registered both providers and serves; a request for a claude model has
\* been answered by its backend while another request is in flight.
C39_Witness ==
    /\ mainpc = "serving"
    /\ providers = {"openai", "anthropic"}
    /\ last.req.model = CLAUDE3
    /\ last.loc.providerName = "anthropic"
    /\ last.outcome.kind = "ok"
    /\ \E p \in Procs : pc[p] # "idle"

====
